---- MODULE Spec2Model ----
(***************************************************************************)
(* A model of the agent core of Project-StormWater:                        *)
(*   - ContextManager (src/context_manager.py): the shared context store,  *)
(*   - VaderLoop (src/agent_loop.py): the cognitive cycle scheduler,       *)
(*   - the command and skill handlers (src/base_commands.py,               *)
(*     src/file_manager.py, src/advanced_commands.py, ...).                *)
(*                                                                         *)
(* Specifications:                                                         *)
(*   SpecCtx   the context store driven call by call by one caller;        *)
(*   Spec      the scheduler loop with a producer thread and a host that   *)
(*             calls run() and stop(); time passes only while it sleeps;   *)
(*   SpecTimed the scheduler loop under a wall clock that may advance at   *)
(*             any point;                                                  *)
(*   SpecCmd   single invocations of the command and skill handlers.       *)
(***************************************************************************)
EXTENDS Integers, Sequences, FiniteSets, TLC

(***************************************************************************)
(* Bounds of the model.                                                    *)
(***************************************************************************)
\* add_to_memory calls explored (three past the memory cap)
MaxAppends == 103
\* longest pending_inputs queue explored
MaxQueue == 2
\* records enqueued over one behaviour of the context store
MaxEnqueued == 3
\* records a concurrent producer enqueues over one behaviour of the loop
MaxProduced == 2
\* tasks added over one behaviour
MaxTasks == 1

\* cycles started over one behaviour
MaxCycles == 5
\* calls of run() over one behaviour
MaxRuns == 2
\* lag is counted up to this many milliseconds
MaxLag == 100
\* last reading of the wall clock explored, in milliseconds
MaxTime == 400

\* add_to_memory calls over one behaviour of the persisted context
MaxPersistAppends == 1
\* register_model calls per model type over one behaviour
MaxRegistrations == 2
\* generate_report calls that succeed, and half-second ticks of its clock
MaxReports == 3
MaxReportTicks == 3

\* the model types callers name; "audio" is no key of the initial table
ModelTypes == {"llm", "vision", "audio"}
\* the model handlers a host registers
ModelHandlers == {"h1", "h2"}
\* the threads on which the host calls VaderLoop.run()
Loops == {"L1", "L2"}
\* the input records producers enqueue (opaque to the core)
Records == {"r1", "r2"}
\* the tasks handlers add
Tasks == {"t1", "t2"}

(***************************************************************************)
(* State.                                                                  *)
(***************************************************************************)
VARIABLES
    \* ---- ContextManager.current_context (context_manager.py:11-18)
    system_state,        \* 'system_state'
    last_update,         \* 'last_update': <<>> is None, <<t>> a timestamp
    active_tasks,        \* 'active_tasks': sequence of tasks
    pending_inputs,      \* 'pending_inputs': sequence of input records
    environment_data,    \* 'environment_data': number of samples merged in
    short_term_memory,   \* 'short_term_memory': sequence of entries
    \* ---- the wall clock, in milliseconds
    now,
    \* ---- a direct caller of the context store
    drained,             \* value returned by the last get_pending_inputs()
    \* ---- VaderLoop fields (agent_loop.py:6-11)
    running,             \* self.running
    cycle_count,         \* self.cycle_count
    last_cycle_time,     \* self.last_cycle_time, in milliseconds
    \* ---- per thread executing run(): control point and locals
    pc,                  \* where the thread is in run() / _execute_cycle()
    cycle_start,         \* local cycle_start of _execute_cycle
    inputs,              \* local inputs of _execute_cycle (the drained list)
    next_action,         \* local next_action of _execute_cycle
    wake_at,             \* when the pending time.sleep() returns
    fault,               \* the step whose fault this run() call caught
    \* ---- a producer thread appending to pending_inputs
    prod_pc,             \* "idle", or "loaded": it holds a reference to a list
    prod_rec,            \* the record it is appending
    prod_target,         \* the list it holds: "ctx", a loop's inputs, "garbage"
    \* ---- one invocation of a command or skill handler
    cmd,                 \* the invocation: handler, operation, parameters
    result,              \* what the invocation gave its caller
    \* ---- ModelRouter (mobile/model_router.py)
    available_models,    \* self.available_models: model type -> handler
    route_result,        \* what the last route_request returned
    routed,              \* the model type the last route_request was given
    invoked,             \* the handler whose process() the last call ran
    \* ---- VaderAPI (api_interface.py)
    response,            \* the response to the last request
    \* ---- the persisted context (context_manager.py:10, 20-39)
    context_file,        \* content of data/context.json
    context_keys,        \* the keys of the dict current_context
    load_outcome,        \* how the last load_initial_state ended
    save_outcome,        \* how the last save_state ended
    \* ---- tasks started and stopped through BaseCommands
    task_state,          \* per task id: "absent", "Running" or "Stopped"
    can_stop,            \* per task id: the task reports it can stop cleanly
    task_call,           \* the last start or stop call and its arguments
    task_reply,          \* what that call returned
    \* ---- history (read by the properties only)
    appended,            \* every entry add_to_memory appended, in call order
    enqueued,            \* every record enqueued, in enqueue order
    delivered,           \* concatenation of all get_pending_inputs() results
    drains_since_enqueue,\* get_pending_inputs calls since the last enqueue
                         \* (2 stands for two or more)
    processed,           \* records handed to the body of _process_inputs
    lost,                \* records appended to a list nobody reads any more
    run_calls,           \* calls of run() so far
    stop_requested,      \* loops whose run() was in progress at a stop()
    run_start,           \* clock when this run() call set self.running
    count_at_run,        \* cycle_count when this run() call set self.running
    prev_start,          \* cycle_start of the previous cycle of this run()
    lag,                 \* time the pacing is not meant to absorb, this run()
    stop_at,             \* clock at the first stop() during this run()
    registered,          \* per model type, the handlers registered, in order
    refused,             \* ids whose stop without force returned False
    cycles_started,      \* cycles started by any thread since __init__
    saved_context,       \* the context in memory at the last save_state call
    trip,                \* "saved" after that call, "loaded" once a new
                         \* ContextManager has loaded the file it left
    \* ---- ConfigLoader (config_loader.py)
    cached_configs,      \* self.cached_configs: per name a value or "absent"
    config_files,        \* per name, what the file under config/ holds
    config_call,         \* the last load_config / save_config call
    config_reply,        \* what it returned
    config_value,        \* history: per name, the data of the last
                         \* successful save, else of the first load
    \* ---- ReportGenerator (mobile/report_generator.py)
    report_clock,        \* the wall clock, in ticks of half a second
    report_files,        \* data/reports: the set of <<path, content>>
    report_reply,        \* what the last generate_report call returned
    report_log           \* history: per successful call, path and content

ctxVars == <<system_state, last_update, active_tasks, pending_inputs,
             environment_data, short_term_memory>>
loopVars == <<running, cycle_count, last_cycle_time, pc, cycle_start, inputs,
              next_action, wake_at, fault>>
prodVars == <<prod_pc, prod_rec, prod_target>>
memHist == <<appended>>
queueHist == <<enqueued, delivered, drains_since_enqueue, processed, lost>>
runHist == <<run_calls, stop_requested, run_start, count_at_run, prev_start,
             lag, stop_at>>
histVars == <<memHist, queueHist, runHist>>
cmdVars == <<cmd, result>>
routerVars == <<available_models, route_result, routed, invoked, registered>>
apiVars == <<response>>
persistVars == <<context_file, context_keys, load_outcome, save_outcome>>
taskVars == <<task_state, can_stop, task_call, task_reply, refused>>
countVars == <<cycles_started>>
tripVars == <<saved_context, trip>>
configVars ==
    <<cached_configs, config_files, config_call, config_reply, config_value>>
reportVars == <<report_clock, report_files, report_reply, report_log>>
toolVars == <<configVars, reportVars>>
extVars ==
    <<routerVars, apiVars, persistVars, taskVars, countVars, tripVars,
      toolVars>>
vars == <<ctxVars, now, drained, loopVars, prodVars, cmdVars, histVars,
          extVars>>

(***************************************************************************)
(* ContextManager                                                          *)
(***************************************************************************)
\* max_items of _prune_short_term_memory
max_items == 100

\* Python's s[-n:] for n > 0: the last n elements, all of s when it is shorter
LastItems(s, n) ==
    IF Len(s) > n THEN SubSeq(s, Len(s) - n + 1, Len(s)) ELSE s

\* a mutation of _prune_short_term_memory: keeps the oldest max_items entries
prune_keeps_oldest(mem) ==
    IF Len(mem) > max_items THEN SubSeq(mem, 1, max_items) ELSE mem

\* _prune_short_term_memory: the value it leaves in 'short_term_memory'
prune_short_term_memory(mem) ==
    IF Len(mem) > max_items THEN LastItems(mem, max_items) ELSE mem

\* __init__: the default context
InitContext ==
    /\ system_state = "initializing"
    /\ last_update = <<>>
    /\ active_tasks = <<>>
    /\ pending_inputs = <<>>
    /\ environment_data = 0
    /\ short_term_memory = <<>>

\* update(): stamps last_update, samples the environment (a no-op in the
\* source), prunes the memory
update ==
    /\ last_update' = <<now>>
    /\ environment_data' = environment_data
    /\ short_term_memory' = prune_short_term_memory(short_term_memory)
    /\ UNCHANGED <<system_state, active_tasks, pending_inputs>>

\* add_to_memory(item): appends {timestamp, data}; it does not prune
add_to_memory(item) ==
    /\ Len(appended) < MaxAppends
    /\ LET entry == [timestamp |-> now, data |-> item]
       IN /\ short_term_memory' = Append(short_term_memory, entry)
          /\ appended' = Append(appended, entry)
    /\ UNCHANGED <<system_state, last_update, active_tasks, pending_inputs,
                   environment_data>>

\* a mutation of get_pending_inputs: returns the queue without clearing it
get_pending_inputs_keeps_queue ==
    /\ drained' = pending_inputs
    /\ pending_inputs' = pending_inputs
    /\ delivered' = delivered \o drained'
    /\ drains_since_enqueue' = IF drains_since_enqueue < 2
                               THEN drains_since_enqueue + 1 ELSE 2
    /\ UNCHANGED <<system_state, last_update, active_tasks, environment_data,
                   short_term_memory>>

\* get_pending_inputs(): returns the queue and replaces it by a new empty list
get_pending_inputs ==
    /\ drained' = pending_inputs
    /\ pending_inputs' = <<>>
    /\ delivered' = delivered \o drained'
    /\ drains_since_enqueue' = IF drains_since_enqueue < 2
                               THEN drains_since_enqueue + 1 ELSE 2
    /\ UNCHANGED <<system_state, last_update, active_tasks, environment_data,
                   short_term_memory>>

\* add_task(task)
add_task(task) ==
    /\ Len(active_tasks) < MaxTasks
    /\ active_tasks' = Append(active_tasks, task)
    /\ UNCHANGED <<system_state, last_update, pending_inputs, environment_data,
                   short_term_memory>>

\* a producer's current_context['pending_inputs'].append(rec), in one step
enqueue_input(rec) ==
    /\ Len(enqueued) < MaxEnqueued
    /\ Len(pending_inputs) < MaxQueue
    /\ pending_inputs' = Append(pending_inputs, rec)
    /\ enqueued' = Append(enqueued, rec)
    /\ drains_since_enqueue' = 0
    /\ UNCHANGED <<system_state, last_update, active_tasks, environment_data,
                   short_term_memory>>

(***************************************************************************)
(* SpecCtx: one caller drives the context store.                           *)
(***************************************************************************)
InitHist ==
    /\ appended = <<>>
    /\ enqueued = <<>>
    /\ delivered = <<>>
    /\ drains_since_enqueue = 0
    /\ processed = <<>>
    /\ lost = <<>>
    /\ run_calls = 0
    /\ stop_requested = {}
    /\ run_start = [t \in Loops |-> 0]
    /\ count_at_run = [t \in Loops |-> 0]
    /\ prev_start = [t \in Loops |-> <<>>]
    /\ lag = [t \in Loops |-> 0]
    /\ stop_at = [t \in Loops |-> <<>>]

\* VaderLoop.__init__, and no thread inside run()
InitLoop ==
    /\ running = FALSE
    /\ cycle_count = 0
    /\ last_cycle_time = 0
    /\ pc = [t \in Loops |-> "idle"]
    /\ cycle_start = [t \in Loops |-> 0]
    /\ inputs = [t \in Loops |-> <<>>]
    /\ next_action = [t \in Loops |-> "None"]
    /\ wake_at = [t \in Loops |-> 0]
    /\ fault = [t \in Loops |-> "none"]

InitProducer ==
    /\ prod_pc = "idle"
    /\ prod_rec = "r1"
    /\ prod_target = "ctx"

\* no handler has been invoked
InitCmd ==
    /\ cmd = [handler |-> "none", op |-> "none", params |-> {},
               arg |-> "none", ext |-> "returns"]
    /\ result = [status |-> "idle", message |-> ""]

\* ModelRouter.__init__: 'llm' and 'vision' are keys bound to None; any
\* other model type is not a key ("absent")
InitRouter ==
    /\ available_models = [m \in ModelTypes |->
                              IF m = "audio" THEN "absent" ELSE "None"]
    /\ route_result = [status |-> "idle", by |-> "none", message |-> <<>>]
    /\ routed = "none"
    /\ invoked = "none"
    /\ registered = [m \in ModelTypes |-> <<>>]

\* no request has been served
InitApi ==
    response = [http |-> 0, status |-> "none", detail |-> "",
                result |-> [status |-> "idle", message |-> ""]]

\* the six keys of the default context
Fields == {"system_state", "last_update", "active_tasks", "pending_inputs",
           "environment_data", "short_term_memory"}

\* a file content: its kind, and for a JSON object the keys it holds
\* (present) and their values.  Kinds: "absent" (no file), "unreadable"
\* (not JSON: corrupt or truncated), "mapping" (a JSON object), "pairs" (a
\* JSON array of [key, value] pairs followed by an element that is no
\* pair), "scalar" (null, a number: nothing a dict can be updated from).
FileContent(kind, present, st, lu, at, pi, ed, mem) ==
    [kind |-> kind, present |-> present, system_state |-> st,
     last_update |-> lu, active_tasks |-> at, pending_inputs |-> pi,
     environment_data |-> ed, short_term_memory |-> mem]

\* a file content with no keys
NoContent(kind) == FileContent(kind, {}, "", <<>>, <<>>, <<>>, 0, <<>>)

\* ContextManager.__init__ with no data/context.json on disk
InitPersist ==
    /\ context_file = NoContent("absent")
    /\ context_keys = Fields
    /\ load_outcome = "none"
    /\ save_outcome = "none"

\* the ids start_task issues, and one id it never issues
IssuedIds == {"k1", "k2"}
TaskIds == IssuedIds \cup {"k9"}

\* no task has been started, no command has been called
InitTasks ==
    /\ task_state = [id \in TaskIds |-> "absent"]
    /\ can_stop = [id \in TaskIds |-> TRUE]
    /\ task_call = [name |-> "none", task_id |-> "None", force |-> FALSE]
    /\ task_reply = [status |-> "idle"]
    /\ refused = {}

\* no cycle has started
InitCount == cycles_started = 0

\* save_state has not been called
InitTrip ==
    /\ saved_context = <<>>
    /\ trip = "none"

\* the configuration names and the data a caller saves: "d1" is plain
\* JSON data, "d_tuple" holds a tuple, "d_time" a datetime; "d2" and
\* "d_list" are file contents
ConfigNames == {"app", "db"}
ConfigData == {"d1", "d_tuple", "d_time"}

\* ConfigLoader.__init__: an empty cache; config/ holds no file yet
InitConfig ==
    /\ cached_configs = [name \in ConfigNames |-> "absent"]
    /\ config_files = [name \in ConfigNames |-> "absent"]
    /\ config_call = [op |-> "none", name |-> "none"]
    /\ config_reply = [status |-> "idle", value |-> "none"]
    /\ config_value = [name \in ConfigNames |-> "absent"]

\* ReportGenerator.supported_formats
supported_formats == {"txt", "md", "html", "json", "csv"}
\* the formats callers ask for, one of them not supported, and their data
ReportFormats == {"txt", "json", "pdf"}
ReportData == {"a", "b"}

\* ReportGenerator.__init__; data/reports holds no report
InitReport ==
    /\ report_clock = 0
    /\ report_files = {}
    /\ report_reply = [status |-> "idle", report_path |-> <<>>]
    /\ report_log = <<>>

InitExt ==
    /\ InitRouter
    /\ InitApi
    /\ InitPersist
    /\ InitTasks
    /\ InitCount
    /\ InitTrip
    /\ InitConfig
    /\ InitReport

Init ==
    /\ InitContext
    /\ now = 0
    /\ drained = <<>>
    /\ InitLoop
    /\ InitProducer
    /\ InitCmd
    /\ InitHist
    /\ InitExt

InitCtx == Init

\* the payloads of successive add_to_memory calls are pairwise distinct, so
\* that the identity and the order of the entries can be observed
CtxAddToMemory ==
    /\ \E item \in 1..MaxAppends :
          /\ item = Len(appended) + 1
          /\ add_to_memory(item)
    /\ UNCHANGED <<now, drained, loopVars, prodVars, queueHist, runHist,
                   cmdVars, extVars>>

CtxUpdate ==
    /\ update
    /\ UNCHANGED <<now, drained, loopVars, prodVars, histVars, cmdVars,
                   extVars>>

CtxGetPendingInputs ==
    /\ get_pending_inputs
    /\ UNCHANGED <<now, loopVars, prodVars, memHist, enqueued, processed,
                   lost, runHist, cmdVars, extVars>>

CtxEnqueue ==
    /\ \E rec \in Records : enqueue_input(rec)
    /\ UNCHANGED <<now, drained, loopVars, prodVars, memHist, delivered,
                   processed, lost, runHist, cmdVars, extVars>>

CtxAddTask ==
    /\ \E task \in Tasks : add_task(task)
    /\ UNCHANGED <<now, drained, loopVars, prodVars, histVars, cmdVars,
                   extVars>>

NextCtx ==
    \/ CtxAddToMemory
    \/ CtxUpdate
    \/ CtxGetPendingInputs
    \/ CtxEnqueue
    \/ CtxAddTask

SpecCtx == InitCtx /\ [][NextCtx]_vars

(***************************************************************************)
(* Properties of the context store (checked under SpecCtx).                *)
(***************************************************************************)

\* C1: after every add_to_memory, in any sequence of context operations, the
\* length of short_term_memory is at most 100 (the append itself enforces
\* the cap).  Violated: the code prunes only in update().
C1_MemoryCapAfterEveryAppend ==
    Len(short_term_memory) <= max_items

\* C2: get_pending_inputs returns all queued inputs in enqueue order and
\* leaves pending_inputs empty: the results of all calls, in order, followed
\* by what is still queued, are exactly the records enqueued; after a call
\* the queue is empty until the next enqueue; a second call with no enqueue
\* in between returns the empty sequence.
C2_DrainReturnsAllThenEmpty ==
    /\ delivered \o pending_inputs = enqueued
    /\ drains_since_enqueue >= 1 => pending_inputs = <<>>
    /\ drains_since_enqueue = 2 => drained = <<>>

\* C2 witness: a call returned two queued records and a second call, with no
\* enqueue in between, returned the empty sequence.
C2_Witness ==
    /\ drains_since_enqueue = 2
    /\ Len(delivered) = 2
    /\ delivered = enqueued
    /\ drained = <<>>

\* C9: whenever update() prunes a memory longer than 100 entries, the
\* retained entries are exactly the 100 most recently appended entries in
\* append order; a memory of at most 100 entries is left unchanged.
C9_PruneKeepsNewestInOrder ==
    [][CtxUpdate =>
         IF Len(short_term_memory) > max_items
         THEN /\ Len(short_term_memory') = max_items
              /\ \A i \in 1..max_items :
                    short_term_memory'[i] =
                        appended[Len(appended) - max_items + i]
         ELSE short_term_memory' = short_term_memory]_vars

\* C9 witness: the memory was pruned from more than 100 entries: it holds
\* 100 entries, the oldest appended entries are gone and the newest is last.
C9_Witness ==
    /\ Len(appended) > max_items + 1
    /\ Len(short_term_memory) = max_items
    /\ short_term_memory[1].data = Len(appended) - max_items + 1
    /\ short_term_memory[max_items].data = Len(appended)

(***************************************************************************)
(* VaderLoop                                                               *)
(***************************************************************************)
\* "Minimum 100ms between cycles": the 0.1 s of _manage_cycle_timing
min_cycle_interval == 100
\* granularity of the wall clock: half the minimum cycle interval
TickMs == min_cycle_interval \div 2

Max(a, b) == IF a >= b THEN a ELSE b
Min(a, b) == IF a <= b THEN a ELSE b

\* the host calls run() on thread t: the call is made, no statement of
\* run() has been executed yet
run_call(t) ==
    /\ pc[t] \in {"idle", "returned"}
    /\ run_calls < MaxRuns
    /\ run_calls' = run_calls + 1
    /\ pc' = [pc EXCEPT ![t] = "enter"]
    /\ fault' = [fault EXCEPT ![t] = "none"]
    /\ prev_start' = [prev_start EXCEPT ![t] = <<>>]
    /\ lag' = [lag EXCEPT ![t] = 0]
    /\ stop_at' = [stop_at EXCEPT ![t] = <<>>]
    /\ UNCHANGED <<ctxVars, now, drained, running, cycle_count,
                   last_cycle_time, cycle_start, inputs, next_action,
                   wake_at, prodVars, memHist, queueHist, stop_requested,
                   run_start, count_at_run, cmdVars, extVars>>

\* a mutation of run(): it also starts the count of cycles again
run_set_running_resets_count(t) ==
    /\ pc[t] = "enter"
    /\ running' = TRUE
    /\ cycle_count' = 0
    /\ pc' = [pc EXCEPT ![t] = "test"]
    /\ run_start' = [run_start EXCEPT ![t] = now]
    /\ count_at_run' = [count_at_run EXCEPT ![t] = 0]
    /\ UNCHANGED <<ctxVars, now, drained, last_cycle_time, cycle_start,
                   inputs, next_action, wake_at, fault, prodVars, memHist,
                   queueHist, run_calls, stop_requested, prev_start, lag,
                   stop_at, cmdVars, extVars>>

\* run(): self.running = True
run_set_running(t) ==
    /\ pc[t] = "enter"
    /\ running' = TRUE
    /\ pc' = [pc EXCEPT ![t] = "test"]
    /\ run_start' = [run_start EXCEPT ![t] = now]
    /\ count_at_run' = [count_at_run EXCEPT ![t] = cycle_count]
    /\ UNCHANGED <<ctxVars, now, drained, cycle_count, last_cycle_time,
                   cycle_start, inputs, next_action, wake_at, fault,
                   prodVars, memHist, queueHist, run_calls, stop_requested,
                   prev_start, lag, stop_at, cmdVars, extVars>>

\* run(): while self.running
run_loop_test(t) ==
    /\ pc[t] = "test"
    /\ pc' = [pc EXCEPT ![t] = IF running THEN "cycle_begin" ELSE "returned"]
    /\ stop_requested' = IF running THEN stop_requested
                         ELSE stop_requested \ {t}
    /\ UNCHANGED <<ctxVars, now, drained, running, cycle_count,
                   last_cycle_time, cycle_start, inputs, next_action,
                   wake_at, fault, prodVars, memHist, queueHist, run_calls,
                   run_start, count_at_run, prev_start, lag, stop_at, cmdVars,
                   extVars>>

\* a mutation of the except clause of run(): logs, leaves self.running set
run_except_keeps_running(t) ==
    /\ pc[t] = "except"
    /\ pc' = [pc EXCEPT ![t] = "test"]
    /\ UNCHANGED <<ctxVars, now, drained, running, cycle_count,
                   last_cycle_time, cycle_start, inputs, next_action,
                   wake_at, fault, prodVars, histVars, cmdVars, extVars>>

\* run(): except Exception: log, self.running = False
run_except(t) ==
    /\ pc[t] = "except"
    /\ running' = FALSE
    /\ pc' = [pc EXCEPT ![t] = "test"]
    /\ UNCHANGED <<ctxVars, now, drained, cycle_count, last_cycle_time,
                   cycle_start, inputs, next_action, wake_at, fault,
                   prodVars, histVars, cmdVars, extVars>>

\* stop(): self.running = False, called by the host from another thread
stop ==
    /\ running' = FALSE
    /\ stop_requested' =
          stop_requested \cup {t \in Loops : pc[t] \notin {"idle", "returned"}}
    /\ stop_at' = [t \in Loops |->
                      IF pc[t] \notin {"idle", "returned"} /\ stop_at[t] = <<>>
                      THEN <<now>> ELSE stop_at[t]]
    /\ UNCHANGED <<ctxVars, now, drained, cycle_count, last_cycle_time, pc,
                   cycle_start, inputs, next_action, wake_at, fault,
                   prodVars, memHist, queueHist, run_calls, run_start,
                   count_at_run, prev_start, lag, cmdVars, extVars>>

\* _execute_cycle: cycle_start = time.time(); self.cycle_count += 1
execute_cycle_begin(t) ==
    /\ pc[t] = "cycle_begin"
    /\ cycle_count < MaxCycles
    /\ cycle_start' = [cycle_start EXCEPT ![t] = now]
    /\ cycle_count' = cycle_count + 1
    /\ cycles_started' = cycles_started + 1
    /\ pc' = [pc EXCEPT ![t] = "observe"]
    /\ prev_start' = [prev_start EXCEPT ![t] =
                         IF cycle_count > count_at_run[t]
                         THEN <<cycle_start[t]>> ELSE <<>>]
    /\ UNCHANGED <<ctxVars, now, drained, running, last_cycle_time, inputs,
                   next_action, wake_at, fault, prodVars, memHist,
                   queueHist, run_calls, stop_requested, run_start,
                   count_at_run, lag, stop_at, cmdVars, routerVars, apiVars,
                   persistVars, taskVars, tripVars, toolVars>>

\* update() when _update_environment_data raises: last_update is already
\* stamped, the memory is not pruned, the fault leaves update()
update_sampling_raises ==
    /\ last_update' = <<now>>
    /\ UNCHANGED <<system_state, active_tasks, pending_inputs,
                   environment_data, short_term_memory>>

\* _execute_cycle step 1: self.context.update().  The environment sampling
\* is a hook (an empty body in the source); its host-supplied logic may
\* raise.
execute_cycle_observe(t) ==
    /\ pc[t] = "observe"
    /\ \/ /\ update
          /\ pc' = [pc EXCEPT ![t] = "drain"]
          /\ UNCHANGED <<inputs, fault>>
       \/ /\ update_sampling_raises
          /\ pc' = [pc EXCEPT ![t] = "except"]
          /\ fault' = [fault EXCEPT ![t] = "observe"]
          /\ inputs' = [inputs EXCEPT ![t] = <<>>]
    /\ UNCHANGED <<now, drained, running, cycle_count, last_cycle_time,
                   cycle_start, next_action, wake_at, prodVars, histVars,
                   cmdVars, extVars>>

\* get_pending_inputs, first statement: inputs = current_context[...]
\* (a reference to the queue's list, not a copy)
get_pending_inputs_read(t) ==
    /\ pc[t] = "drain"
    /\ pc' = [pc EXCEPT ![t] = "drain_reset"]
    /\ UNCHANGED <<ctxVars, now, drained, running, cycle_count,
                   last_cycle_time, cycle_start, inputs, next_action,
                   wake_at, fault, prodVars, histVars, cmdVars, extVars>>

\* get_pending_inputs, second statement: current_context[...] = []; return.
\* The caller now holds the old list; a producer that had loaded a
\* reference to the queue's list still refers to that old list.
get_pending_inputs_reset(t) ==
    /\ pc[t] = "drain_reset"
    /\ inputs' = [inputs EXCEPT ![t] = pending_inputs]
    /\ pending_inputs' = <<>>
    /\ pc' = [pc EXCEPT ![t] = "ingest"]
    /\ prod_target' = IF prod_pc = "loaded" /\ prod_target = "ctx"
                      THEN t ELSE prod_target
    /\ delivered' = delivered \o pending_inputs
    /\ drains_since_enqueue' = IF drains_since_enqueue < 2
                               THEN drains_since_enqueue + 1 ELSE 2
    /\ UNCHANGED <<system_state, last_update, active_tasks, environment_data,
                   short_term_memory, now, drained, running, cycle_count,
                   last_cycle_time, cycle_start, next_action, wake_at, fault,
                   prod_pc, prod_rec, memHist, enqueued, processed, lost,
                   runHist, cmdVars, extVars>>

\* the list a producer still refers to once loop t is done with its inputs
Released(t) ==
    IF prod_pc = "loaded" /\ prod_target = t THEN "garbage" ELSE prod_target

\* _execute_cycle step 2: if inputs: self._process_inputs(inputs).
\* _process_inputs iterates inputs.items(); inputs is a list, which has no
\* items(): the call raises AttributeError before any record is handled.
execute_cycle_ingest(t) ==
    /\ pc[t] = "ingest"
    /\ IF inputs[t] # <<>>
       THEN /\ pc' = [pc EXCEPT ![t] = "except"]
            /\ fault' = [fault EXCEPT ![t] = "ingest"]
            /\ inputs' = [inputs EXCEPT ![t] = <<>>]
       ELSE /\ pc' = [pc EXCEPT ![t] = "decide"]
            /\ UNCHANGED <<fault, inputs>>
    /\ prod_target' = Released(t)
    /\ UNCHANGED <<ctxVars, now, drained, running, cycle_count,
                   last_cycle_time, cycle_start, next_action, wake_at,
                   prod_pc, prod_rec, histVars, cmdVars, extVars>>

\* _execute_cycle step 3: next_action = self._determine_next_action().
\* The selection logic is a hook: the source's body returns None, a host's
\* logic may return an action.
execute_cycle_decide(t) ==
    /\ pc[t] = "decide"
    /\ \E chosen \in {"None", "action"} :
          /\ next_action' = [next_action EXCEPT ![t] = chosen]
          /\ pc' = [pc EXCEPT ![t] = IF chosen = "None" THEN "measure"
                                     ELSE "act"]
    /\ UNCHANGED <<ctxVars, now, drained, running, cycle_count,
                   last_cycle_time, cycle_start, inputs, wake_at, fault,
                   prodVars, histVars, cmdVars, extVars>>

\* _execute_cycle: if next_action: self._execute_action(next_action).
\* The execution logic is a hook and may raise.
execute_cycle_act(t) ==
    /\ pc[t] = "act"
    /\ \/ /\ pc' = [pc EXCEPT ![t] = "measure"]
          /\ UNCHANGED <<fault, inputs, next_action>>
       \/ /\ pc' = [pc EXCEPT ![t] = "except"]
          /\ fault' = [fault EXCEPT ![t] = "act"]
          /\ inputs' = [inputs EXCEPT ![t] = <<>>]
          /\ next_action' = [next_action EXCEPT ![t] = "None"]
    /\ UNCHANGED <<ctxVars, now, drained, running, cycle_count,
                   last_cycle_time, cycle_start, wake_at, prodVars,
                   histVars, cmdVars, extVars>>

\* _execute_cycle: self.last_cycle_time = time.time() - cycle_start; return
execute_cycle_measure(t) ==
    /\ pc[t] = "measure"
    /\ last_cycle_time' = now - cycle_start[t]
    /\ inputs' = [inputs EXCEPT ![t] = <<>>]
    /\ next_action' = [next_action EXCEPT ![t] = "None"]
    /\ pc' = [pc EXCEPT ![t] = "pace"]
    /\ lag' = [lag EXCEPT ![t] =
                  Min(MaxLag,
                      @ + Max(0, last_cycle_time' - min_cycle_interval))]
    /\ UNCHANGED <<ctxVars, now, drained, running, cycle_count, cycle_start,
                   wake_at, fault, prodVars, memHist,
                   queueHist, run_calls, stop_requested, run_start,
                   count_at_run, prev_start, stop_at, cmdVars, extVars>>

\* a mutation of _manage_cycle_timing: never sleeps
manage_cycle_timing_never_sleeps(t) ==
    /\ pc[t] = "pace"
    /\ pc' = [pc EXCEPT ![t] = "test"]
    /\ UNCHANGED <<ctxVars, now, drained, running, cycle_count,
                   last_cycle_time, cycle_start, inputs, next_action,
                   wake_at, fault, prodVars, histVars, cmdVars, extVars>>

\* _manage_cycle_timing: if self.last_cycle_time < 0.1:
\*     time.sleep(0.1 - self.last_cycle_time)
\* time.sleep may raise (an interrupted or failing system call).
manage_cycle_timing(t) ==
    /\ pc[t] = "pace"
    /\ \/ /\ last_cycle_time < min_cycle_interval
          /\ wake_at' = [wake_at EXCEPT ![t] =
                            now + (min_cycle_interval - last_cycle_time)]
          /\ pc' = [pc EXCEPT ![t] = "sleeping"]
          /\ UNCHANGED fault
       \/ /\ last_cycle_time < min_cycle_interval
          /\ pc' = [pc EXCEPT ![t] = "except"]
          /\ fault' = [fault EXCEPT ![t] = "pace"]
          /\ UNCHANGED wake_at
       \/ /\ last_cycle_time >= min_cycle_interval
          /\ pc' = [pc EXCEPT ![t] = "test"]
          /\ UNCHANGED <<wake_at, fault>>
    /\ UNCHANGED <<ctxVars, now, drained, running, cycle_count,
                   last_cycle_time, cycle_start, inputs, next_action,
                   prodVars, histVars, cmdVars, extVars>>

\* time.sleep returns, no earlier than after the requested time
sleep_returns(t) ==
    /\ pc[t] = "sleeping"
    /\ now >= wake_at[t]
    /\ pc' = [pc EXCEPT ![t] = "test"]
    /\ UNCHANGED <<ctxVars, now, drained, running, cycle_count,
                   last_cycle_time, cycle_start, inputs, next_action,
                   wake_at, fault, prodVars, histVars, cmdVars, extVars>>

(***************************************************************************)
(* A producer thread: current_context['pending_inputs'].append(rec).  The  *)
(* store has no enqueue method and no lock; the statement first loads a    *)
(* reference to the list, then appends to the list it loaded.              *)
(***************************************************************************)
producer_load(rec) ==
    /\ prod_pc = "idle"
    /\ Len(enqueued) < MaxProduced
    /\ Len(pending_inputs) < MaxQueue
    /\ prod_pc' = "loaded"
    /\ prod_rec' = rec
    /\ prod_target' = "ctx"
    /\ UNCHANGED <<ctxVars, now, drained, loopVars, histVars, cmdVars, extVars>>

producer_append ==
    /\ prod_pc = "loaded"
    /\ prod_pc' = "idle"
    /\ enqueued' = Append(enqueued, prod_rec)
    /\ IF prod_target = "ctx"
       THEN /\ pending_inputs' = Append(pending_inputs, prod_rec)
            /\ drains_since_enqueue' = 0
            /\ UNCHANGED <<inputs, delivered, lost>>
       ELSE IF prod_target \in Loops
       THEN /\ inputs' = [inputs EXCEPT ![prod_target] = Append(@, prod_rec)]
            /\ delivered' = Append(delivered, prod_rec)
            /\ UNCHANGED <<pending_inputs, drains_since_enqueue, lost>>
       ELSE /\ lost' = Append(lost, prod_rec)
            /\ UNCHANGED <<pending_inputs, drains_since_enqueue, inputs,
                           delivered>>
    /\ UNCHANGED <<system_state, last_update, active_tasks, environment_data,
                   short_term_memory, now, drained, running, cycle_count,
                   last_cycle_time, pc, cycle_start, next_action, wake_at,
                   fault, prod_rec, prod_target, memHist, processed,
                   runHist, cmdVars, extVars>>

(***************************************************************************)
(* The wall clock                                                          *)
(***************************************************************************)
\* the time a sleeping loop still has to sleep
Remaining(t) == IF pc[t] = "sleeping" THEN Max(0, wake_at[t] - now) ELSE 0

\* The pacing absorbs the time spent in steps 1-4 of a cycle and the time
\* slept as requested.  Time that passes elsewhere in run() (between the
\* measurement and the sleep, after the sleep is due, around the loop test)
\* is lag.
LagOf(t, d) ==
    IF pc[t] \in {"observe", "drain", "drain_reset", "ingest", "decide",
                  "act", "measure", "idle", "returned", "enter"}
    THEN 0
    ELSE d - (IF Remaining(t) < d THEN Remaining(t) ELSE d)

\* the clock advances by one tick, whatever the threads are doing
clock_tick ==
    /\ now + TickMs <= MaxTime
    /\ now' = now + TickMs
    /\ lag' = [t \in Loops |-> Min(MaxLag, lag[t] + LagOf(t, TickMs))]
    /\ UNCHANGED <<ctxVars, drained, loopVars, prodVars, memHist, queueHist,
                   run_calls, stop_requested, run_start, count_at_run,
                   prev_start, stop_at, cmdVars, extVars>>

\* the clock advances to the moment a sleeping loop is due (every other
\* step takes no time)
sleep_elapses(t) ==
    /\ pc[t] = "sleeping"
    /\ now < wake_at[t]
    /\ now' = wake_at[t]
    /\ UNCHANGED <<ctxVars, drained, loopVars, prodVars, histVars, cmdVars,
                   extVars>>

(***************************************************************************)
(* Spec: one thread runs the loop, a producer enqueues, the host stops and *)
(* restarts the loop.  Time passes only while the loop sleeps.             *)
(***************************************************************************)
LoopStep(t) ==
    \/ run_call(t)
    \/ run_set_running(t)
    \/ run_loop_test(t)
    \/ execute_cycle_begin(t)
    \/ execute_cycle_observe(t)
    \/ get_pending_inputs_read(t)
    \/ get_pending_inputs_reset(t)
    \/ execute_cycle_ingest(t)
    \/ execute_cycle_decide(t)
    \/ execute_cycle_act(t)
    \/ execute_cycle_measure(t)
    \/ manage_cycle_timing(t)
    \/ sleep_returns(t)
    \/ run_except(t)

Next ==
    \/ LoopStep("L1")
    \/ sleep_elapses("L1")
    \/ stop
    \/ \E rec \in Records : producer_load(rec)
    \/ producer_append

Spec == Init /\ [][Next]_vars

(***************************************************************************)
(* Properties of the scheduler loop (checked under Spec).                  *)
(***************************************************************************)

\* C3: a fault raised while processing a drained input (Ingest) or while
\* executing a chosen action (Act) is recoverable: handling it leaves the
\* scheduler Running.  The except clause of run() clears self.running for
\* every fault: violated.
C3_IngestAndActFaultsRecoverable ==
    [][\A t \in Loops :
         (pc[t] = "except" /\ fault[t] \in {"ingest", "act"}
            /\ pc'[t] # "except")
         => running' = running]_vars

\* C4: every input record drained in a cycle's Ingest step is handed to the
\* process-input step exactly once, in FIFO order (once no loop is between
\* its drain and its Ingest step, the records processed are the records
\* drained), and Ingest does not end the cycle with a fault.  Violated:
\* _process_inputs raises on every non-empty list.
C4_DrainedInputsProcessedOnce ==
    /\ (\A t \in Loops : pc[t] \notin {"drain_reset", "ingest"})
          => processed = delivered
    /\ \A t \in Loops : pc[t] = "except" => fault[t] # "ingest"

\* C5: once Observe or Pace has raised a fault, the loop does not go on: the
\* fault is handled by clearing self.running, the loop test that follows
\* ends run(), and the thread is in no cycle again before the host's next
\* call of run().
C5_FatalFaultStopsLoop ==
    \A t \in Loops :
       fault[t] \in {"observe", "pace"} =>
          /\ pc[t] \in {"except", "test", "returned"}
          /\ pc[t] # "except" => ~running

\* C5 witness: run() has returned after a fault of the Pace step.
C5_Witness ==
    /\ pc["L1"] = "returned"
    /\ fault["L1"] = "pace"
    /\ ~running
    /\ cycle_count >= 1

\* C6: a stop() issued while a call of run() is in progress, in any state of
\* that call, is never lost: the loop test that follows does not start a
\* cycle.  Violated by a stop() that precedes self.running = True.
C6_StopNeverLost ==
    [][\A t \in Loops :
         (t \in stop_requested /\ pc[t] = "test")
         => pc'[t] # "cycle_begin"]_vars

\* C8: with a producer appending concurrently with the drain, every record
\* enqueued is returned by exactly one drain or is still queued, in enqueue
\* order: none is lost or duplicated.  Violated: a producer that loaded the
\* list before the drain replaced it appends to a list nobody reads.
C8_NoInputLostOrDuplicated ==
    /\ lost = <<>>
    /\ delivered \o pending_inputs = enqueued

(***************************************************************************)
(* SpecTimed: one thread runs the loop under a clock that may advance at   *)
(* any point; the host calls run() once and may call stop().               *)
(***************************************************************************)
TimedStep(t) ==
    \/ run_call(t) /\ run_calls = 0
    \/ run_set_running(t)
    \/ run_loop_test(t)
    \/ execute_cycle_begin(t)
    \/ execute_cycle_observe(t)
    \/ get_pending_inputs_read(t)
    \/ get_pending_inputs_reset(t)
    \/ execute_cycle_ingest(t)
    \/ execute_cycle_decide(t)
    \/ execute_cycle_act(t)
    \/ execute_cycle_measure(t)
    \/ manage_cycle_timing(t)
    \/ sleep_returns(t)
    \/ run_except(t)

NextTimed ==
    \/ TimedStep("L1")
    \/ clock_tick
    \/ stop

SpecTimed == Init /\ [][NextTimed]_vars

(***************************************************************************)
(* Properties of the pacing (checked under SpecTimed).                     *)
(***************************************************************************)
\* cycles started by the current call of run() on thread t
CyclesInRun(t) == cycle_count - count_at_run[t]

\* each cycle of a run starts at least the minimum interval after the
\* previous one started
CycleSpacing ==
    \A t \in Loops :
       prev_start[t] # <<>> =>
          cycle_start[t] - prev_start[t][1] >= min_cycle_interval

\* no busy spin: n cycles of a run take at least (n - 1) intervals
CycleCountBound ==
    \A t \in Loops :
       (pc[t] \notin {"idle", "enter"} /\ CyclesInRun(t) >= 1) =>
          (CyclesInRun(t) - 1) * min_cycle_interval <= now - run_start[t]

\* a run stopped 350 ms after it started, with no fault: it has started at
\* most 4 cycles, and 3 or 4 when at most 50 ms passed outside the steps the
\* pacing accounts for
CountAfter350 ==
    \A t \in Loops :
       (pc[t] = "returned" /\ fault[t] = "none"
          /\ stop_at[t] = <<run_start[t] + 350>>) =>
          /\ CyclesInRun(t) <= 4
          /\ lag[t] <= 50 => CyclesInRun(t) \in {3, 4}

\* the Pace step suspends for exactly the remainder of the interval when
\* steps 1-4 took less than the interval, and does not suspend otherwise
PaceSleepsRemainder ==
    \A t \in Loops :
       pc[t] = "pace" =>
          /\ pc'[t] = "sleeping" =>
                /\ last_cycle_time < min_cycle_interval
                /\ wake_at'[t] - now = min_cycle_interval - last_cycle_time
          /\ pc'[t] = "test" => last_cycle_time >= min_cycle_interval

ExtOutcomes ==
    {"returns", "raises", "raises_request_exception", "raises_syntax_error"}

\* str(e) of the exception an outcome raises
FaultText(ext) ==
    CASE ext = "raises" -> "boom"
      [] ext = "raises_request_exception" -> "connection refused"
      [] ext = "raises_syntax_error" -> "invalid syntax"
      [] OTHER -> ""

\* str(e) of the KeyError raised by params[k]: it names the key
KeyErrorText(k) == k

\* the result envelopes: {"status": "success", ...} and
\* {"status": "error", "message": msg}
Success == [status |-> "success", message |-> ""]
Error(msg) == [status |-> "error", message |-> msg]
\* the call returned None (no envelope)
NoResult == [status |-> "None", message |-> ""]
\* the call did not return: the exception left the handler
Raised(msg) == [status |-> "raised", message |-> msg]

\* the first key of ks, in order, that params does not hold; "" when it
\* holds them all: params[k1], params[k2] are evaluated left to right
RECURSIVE FirstMissing(_, _)
FirstMissing(ks, params) ==
    IF ks = <<>> THEN ""
    ELSE IF Head(ks) \notin params THEN Head(ks)
    ELSE FirstMissing(Tail(ks), params)

\* try: <look up the keys ks; make a call>; return success
\* except Exception as e: return {"status": "error", "message": str(e)}
Guarded(ks, params, ext) ==
    IF FirstMissing(ks, params) # ""
    THEN Error(KeyErrorText(FirstMissing(ks, params)))
    ELSE IF ext # "returns" THEN Error(FaultText(ext))
    ELSE Success

\* ---- BaseCommands (parameters are read with params.get: no KeyError)
BaseCommands_help == Success

BaseCommands_status(ext) ==
    IF ext # "returns" THEN Error(FaultText(ext)) ELSE Success

\* a mutation of BaseCommands.start: no try/except around start_task
BaseCommands_start_unguarded(params, ext) ==
    IF ext # "returns" THEN Raised(FaultText(ext)) ELSE Success

BaseCommands_start(params, ext) ==
    IF ext # "returns" THEN Error(FaultText(ext)) ELSE Success

BaseCommands_stop(params, ext) ==
    IF ext # "returns" THEN Error(FaultText(ext)) ELSE Success

BaseCommands_restart(params, ext) ==
    IF ext # "returns" THEN Error(FaultText(ext)) ELSE Success

BaseCommands_list(params, ext) ==
    IF ext # "returns" THEN Error(FaultText(ext)) ELSE Success

\* action = params.get('action', 'view')
BaseCommands_config(params, arg, ext) ==
    LET action == IF "action" \in params THEN arg ELSE "view"
    IN IF action \in {"view", "set"}
       THEN IF ext # "returns" THEN Error(FaultText(ext)) ELSE Success
       ELSE Error("Invalid action")

\* ---- AdvancedCommands
AdvancedCommands_trace(params, ext) ==
    IF ext # "returns" THEN Error(FaultText(ext)) ELSE Success

\* surge calls only _apply_surge, which builds a dictionary
AdvancedCommands_surge(params) == Success

AdvancedCommands_debug(params, ext) ==
    IF ext # "returns" THEN Error(FaultText(ext)) ELSE Success

\* ---- FileManager.execute
allowed_operations == {"read", "write", "list", "delete", "move"}

FileManagerKeys(op) ==
    CASE op = "write" -> <<"path", "content">>
      [] op = "move" -> <<"source", "destination">>
      [] OTHER -> <<"path">>

FileManager_execute(op, params, ext) ==
    IF op \notin allowed_operations
    THEN Error("Operation not allowed")
    ELSE Guarded(FileManagerKeys(op), params, ext)

\* ---- WebScraper.execute: an operation it does not know falls off the end
\* of the if/elif chain and returns None
WebScraperKeys(op) == IF op = "fetch_page" THEN <<"url">> ELSE <<"html">>

WebScraper_execute(op, params, ext) ==
    IF op \in {"fetch_page", "extract_text", "extract_links"}
    THEN Guarded(WebScraperKeys(op), params, ext)
    ELSE NoResult

\* ---- CodeWriter.execute
CodeWriterKeys(op) ==
    CASE op = "generate" -> <<"language", "spec">>
      [] op = "analyze" -> <<"code">>
      [] OTHER -> <<"code", "language">>

\* generate_code makes no call that can fail; analyze_code wraps ast.parse in
\* its own try/except Exception; format_code and validate_code handle Python
\* only; validate_code catches SyntaxError and reports it as a successful
\* result with valid = False
CodeWriter_execute(op, params, arg, ext) ==
    IF op \notin {"generate", "analyze", "format", "validate"}
    THEN NoResult
    ELSE IF FirstMissing(CodeWriterKeys(op), params) # ""
    THEN Error(KeyErrorText(FirstMissing(CodeWriterKeys(op), params)))
    ELSE CASE op = "generate" ->
                 IF arg \in {"python", "javascript", "bash"}
                 THEN Success ELSE Error("Unsupported language")
           [] op = "analyze" ->
                 IF ext # "returns" THEN Error(FaultText(ext)) ELSE Success
           [] op = "format" ->
                 IF arg # "python" THEN Error("Formatting not supported")
                 ELSE IF ext # "returns" THEN Error(FaultText(ext))
                 ELSE Success
           [] OTHER ->
                 IF arg # "python" THEN Error("Validation not supported")
                 ELSE IF ext = "raises_syntax_error" THEN Success
                 ELSE IF ext # "returns" THEN Error(FaultText(ext))
                 ELSE Success

\* ---- NetScanner.execute: check_connectivity catches
\* requests.RequestException and reports it as a successful result with
\* reachable = False
NetScannerKeys(op) ==
    IF op = "analyze_network" THEN <<"subnet">> ELSE <<"host">>

NetScanner_execute(op, params, ext) ==
    IF op \notin {"scan_ports", "check_connectivity", "analyze_network"}
    THEN NoResult
    ELSE IF FirstMissing(NetScannerKeys(op), params) # ""
    THEN Error(KeyErrorText(FirstMissing(NetScannerKeys(op), params)))
    ELSE IF op = "check_connectivity" /\ ext = "raises_request_exception"
    THEN Success
    ELSE IF ext # "returns" THEN Error(FaultText(ext))
    ELSE Success

(***************************************************************************)
(* SpecCmd: a caller invokes the handlers, one invocation at a time.       *)
(***************************************************************************)
BaseCommandNames ==
    {"help", "status", "start", "stop", "restart", "list", "config"}
AdvancedCommandNames == {"trace", "surge", "debug"}
SkillNames == {"FileManager", "WebScraper", "CodeWriter", "NetScanner"}

\* the operation names a caller passes to a skill ("bogus": one it lacks)
SkillOps(h) ==
    CASE h = "FileManager" -> allowed_operations \cup {"bogus"}
      [] h = "WebScraper" ->
            {"fetch_page", "extract_text", "extract_links", "bogus"}
      [] h = "CodeWriter" ->
            {"generate", "analyze", "format", "validate", "bogus"}
      [] OTHER ->
            {"scan_ports", "check_connectivity", "analyze_network", "bogus"}

\* the parameter keys a caller may pass to a skill
SkillKeys(h) ==
    CASE h = "FileManager" -> {"path", "content", "source", "destination"}
      [] h = "WebScraper" -> {"url", "html"}
      [] h = "CodeWriter" -> {"code", "language", "spec"}
      [] OTHER -> {"host", "subnet"}

\* the parameter keys a caller may pass to a command: the key the command
\* reads that identifies what it acts on
BaseCommandKeys(name) ==
    CASE name \in {"start", "list"} -> {"type"}
      [] name = "stop" -> {"task_id"}
      [] name = "restart" -> {"component"}
      [] name = "config" -> {"action"}
      [] OTHER -> {}

invoke_base_command ==
    /\ \E name \in BaseCommandNames,
          arg \in {"view", "set", "bogus"}, ext \in ExtOutcomes :
       \E params \in SUBSET BaseCommandKeys(name) :
          /\ cmd' = [handler |-> "BaseCommands", op |-> name,
                     params |-> params, arg |-> arg, ext |-> ext]
          /\ result' =
                CASE name = "help" -> BaseCommands_help
                  [] name = "status" -> BaseCommands_status(ext)
                  [] name = "start" -> BaseCommands_start(params, ext)
                  [] name = "stop" -> BaseCommands_stop(params, ext)
                  [] name = "restart" -> BaseCommands_restart(params, ext)
                  [] name = "list" -> BaseCommands_list(params, ext)
                  [] OTHER -> BaseCommands_config(params, arg, ext)
    /\ UNCHANGED <<ctxVars, now, drained, loopVars, prodVars, histVars,
                   extVars>>

invoke_advanced_command ==
    /\ \E name \in AdvancedCommandNames, params \in SUBSET {"trace_id"},
          ext \in ExtOutcomes :
          /\ cmd' = [handler |-> "AdvancedCommands", op |-> name,
                     params |-> params, arg |-> "none", ext |-> ext]
          /\ result' =
                CASE name = "trace" -> AdvancedCommands_trace(params, ext)
                  [] name = "surge" -> AdvancedCommands_surge(params)
                  [] OTHER -> AdvancedCommands_debug(params, ext)
    /\ UNCHANGED <<ctxVars, now, drained, loopVars, prodVars, histVars,
                   extVars>>

\* what the execute(operation, params) of skill h returns
SkillResult(h, op, params, arg, ext) ==
    CASE h = "FileManager" -> FileManager_execute(op, params, ext)
      [] h = "WebScraper" -> WebScraper_execute(op, params, ext)
      [] h = "CodeWriter" -> CodeWriter_execute(op, params, arg, ext)
      [] OTHER -> NetScanner_execute(op, params, ext)

invoke_skill ==
    /\ \E h \in SkillNames, ext \in ExtOutcomes,
          arg \in {"python", "cobol"} :
          \E op \in SkillOps(h), params \in SUBSET SkillKeys(h) :
             /\ cmd' = [handler |-> h, op |-> op, params |-> params,
                        arg |-> arg, ext |-> ext]
             /\ result' = SkillResult(h, op, params, arg, ext)
    /\ UNCHANGED <<ctxVars, now, drained, loopVars, prodVars, histVars,
                   extVars>>

NextCmd ==
    \/ invoke_base_command
    \/ invoke_advanced_command
    \/ invoke_skill

SpecCmd == Init /\ [][NextCmd]_vars

(***************************************************************************)
(* Properties of the handlers (checked under SpecCmd).                     *)
(***************************************************************************)
\* the keys an invocation looks up with params[k], in order
LookedUp(c) ==
    CASE c.handler = "FileManager" /\ c.op \in allowed_operations ->
            FileManagerKeys(c.op)
      [] c.handler = "WebScraper" /\ c.op # "bogus" -> WebScraperKeys(c.op)
      [] c.handler = "CodeWriter" /\ c.op # "bogus" -> CodeWriterKeys(c.op)
      [] c.handler = "NetScanner" /\ c.op # "bogus" -> NetScannerKeys(c.op)
      [] OTHER -> <<>>

\* whether the invocation, its keys found, goes on to a call that can fail
MakesCall(c) ==
    CASE c.handler = "BaseCommands" ->
            \/ c.op \in {"status", "start", "stop", "restart", "list"}
            \/ c.op = "config" /\ ("action" \notin c.params
                                     \/ c.arg \in {"view", "set"})
      [] c.handler = "AdvancedCommands" -> c.op \in {"trace", "debug"}
      [] c.handler = "FileManager" -> c.op \in allowed_operations
      [] c.handler = "CodeWriter" ->
            \/ c.op = "analyze"
            \/ c.op \in {"format", "validate"} /\ c.arg = "python"
      [] c.handler \in {"WebScraper", "NetScanner"} -> c.op # "bogus"
      [] OTHER -> FALSE

\* the text of the fault raised inside the handler by invocation c, "" when
\* none is raised
RaisedInside(c) ==
    IF FirstMissing(LookedUp(c), c.params) # ""
    THEN KeyErrorText(FirstMissing(LookedUp(c), c.params))
    ELSE IF MakesCall(c) THEN FaultText(c.ext)
    ELSE ""

\* the faults a handler catches itself and reports as a successful result
ReportedAsSuccess(c) ==
    /\ FirstMissing(LookedUp(c), c.params) = ""
    /\ \/ /\ c.handler = "NetScanner"
          /\ c.op = "check_connectivity"
          /\ c.ext = "raises_request_exception"
       \/ /\ c.handler = "CodeWriter"
          /\ c.op = "validate"
          /\ c.arg = "python"
          /\ c.ext = "raises_syntax_error"

C11_EveryInvocationReturnsEnvelope ==
    cmd.handler # "none" => result.status \in {"success", "error"}

(***************************************************************************)
(* ModelRouter: a table from names (model types) to handlers, and the      *)
(* dispatch of a request to the handler bound to a name.                   *)
(***************************************************************************)
\* route_request returned None
RouteNone == [status |-> "None", by |-> "none", message |-> <<>>]
\* route_request returned what the process() of handler h returned
RouteProcessed(h) == [status |-> "processed", by |-> h, message |-> <<>>]
\* an error envelope whose message is "unknown command" followed by the name
UnknownCommand(name) ==
    [status |-> "error", by |-> "none",
     message |-> <<"unknown command", name>>]

\* a mutation of register_model: a name already bound to a handler keeps it
register_model_keeps_first(model_type, model_handler) ==
    /\ Len(registered[model_type]) < MaxRegistrations
    /\ available_models' =
          [available_models EXCEPT ![model_type] =
              IF @ \in ModelHandlers THEN @ ELSE model_handler]
    /\ registered' = [registered EXCEPT ![model_type] =
                         Append(@, model_handler)]
    /\ UNCHANGED <<route_result, routed, invoked>>

\* register_model(model_type, model_handler):
\*     self.available_models[model_type] = model_handler
register_model(model_type, model_handler) ==
    /\ Len(registered[model_type]) < MaxRegistrations
    /\ available_models' =
          [available_models EXCEPT ![model_type] = model_handler]
    /\ registered' = [registered EXCEPT ![model_type] =
                         Append(@, model_handler)]
    /\ UNCHANGED <<route_result, routed, invoked>>

\* route_request(model_type, request_data); raises says whether the
\* handler's process() raises.  A model type that is no key, a key bound to
\* None and a process() that raises all give None.
route_request(model_type, raises) ==
    /\ routed' = model_type
    /\ IF available_models[model_type] \in {"absent", "None"}
       THEN /\ route_result' = RouteNone
            /\ invoked' = "none"
       ELSE /\ invoked' = available_models[model_type]
            /\ route_result' = IF raises THEN RouteNone
                               ELSE RouteProcessed(invoked')
    /\ UNCHANGED <<available_models, registered>>

RegisterModel ==
    /\ \E m \in ModelTypes, h \in ModelHandlers : register_model(m, h)
    /\ UNCHANGED <<ctxVars, now, drained, loopVars, prodVars, cmdVars,
                   histVars, apiVars, persistVars, taskVars, countVars,
                   tripVars, toolVars>>

RouteRequest ==
    /\ \E m \in ModelTypes, raises \in BOOLEAN : route_request(m, raises)
    /\ UNCHANGED <<ctxVars, now, drained, loopVars, prodVars, cmdVars,
                   histVars, apiVars, persistVars, taskVars, countVars,
                   tripVars, toolVars>>

NextRouter ==
    \/ RegisterModel
    \/ RouteRequest

SpecRouter == Init /\ [][NextRouter]_vars

(***************************************************************************)
(* Properties of the router (checked under SpecRouter).                    *)
(***************************************************************************)
\* C12: dispatching a name that is not registered returns an Error result
\* whose message is "unknown command" followed by the name, and invokes no
\* handler.  Violated: route_request returns None for such a name.
C12_UnknownNameGivesError ==
    (routed # "none" /\ registered[routed] = <<>>) =>
       /\ invoked = "none"
       /\ route_result = UnknownCommand(routed)

\* C20: after any sequence of register calls, every name is bound to the
\* handler most recently registered under it (a name never registered keeps
\* its initial binding); registering is never rejected and changes the
\* binding of no other name; a dispatch to a name runs the handler most
\* recently registered under it, and no handler when there is none.
C20_LastRegistrationWins ==
    /\ [](\A m \in ModelTypes :
            available_models[m] =
               IF registered[m] # <<>>
               THEN registered[m][Len(registered[m])]
               ELSE IF m = "audio" THEN "absent" ELSE "None")
    /\ [][RegisterModel =>
            \E m \in ModelTypes :
               /\ Len(registered'[m]) = Len(registered[m]) + 1
               /\ available_models'[m] = registered'[m][Len(registered'[m])]
               /\ \A o \in ModelTypes \ {m} :
                     available_models'[o] = available_models[o]]_vars
    /\ [][RouteRequest =>
            /\ invoked' = IF registered[routed'] = <<>> THEN "none"
                          ELSE registered[routed'][Len(registered[routed'])]
            /\ route_result'.by \in {"none", invoked'}]_vars

\* C20 witness: "llm" was registered twice with different handlers and a
\* dispatch to it ran the second one.
C20_Witness ==
    /\ registered["llm"] = <<"h1", "h2">>
    /\ routed = "llm"
    /\ invoked = "h2"
    /\ route_result = RouteProcessed("h2")

\* the parameters an invocation cannot do without: what start, stop and
\* restart act on, and the keys a skill operation looks up
RequiredKeys(c) ==
    CASE c.handler = "BaseCommands" /\ c.op = "start" -> {"type"}
      [] c.handler = "BaseCommands" /\ c.op = "stop" -> {"task_id"}
      [] c.handler = "BaseCommands" /\ c.op = "restart" -> {"component"}
      [] c.handler \in SkillNames ->
            {LookedUp(c)[i] : i \in 1..Len(LookedUp(c))}
      [] OTHER -> {}

MissingRequired(c) == RequiredKeys(c) \ c.params # {}

\* C13: a command invoked with a required parameter missing from its
\* parameter map returns an Error result.  Violated: start, stop and
\* restart read the parameter with params.get and pass None on.
C13_MissingParameterGivesError ==
    MissingRequired(cmd) => result.status = "error"

(***************************************************************************)
(* VaderAPI: the HTTP transport.  POST /execute hands the request to       *)
(* vader.execute_skill and wraps what it returns; GET /status wraps        *)
(* vader.get_status.  The vader instance dispatches to a skill: its call   *)
(* either returns what the skill's execute returned or raises.             *)
(***************************************************************************)
\* return {"status": "success", "result": result}
ApiSuccess(res) ==
    [http |-> 200, status |-> "success", detail |-> "", result |-> res]
\* raise HTTPException(status_code=500, detail=str(e))
ApiHttpException(text) ==
    [http |-> 500, status |-> "none", detail |-> text,
     result |-> [status |-> "idle", message |-> ""]]

\* POST /execute
execute_skill ==
    /\ \E h \in SkillNames, ext \in ExtOutcomes, arg \in {"python", "cobol"},
          dispatch \in {"returns", "raises"} :
          \E op \in SkillOps(h), params \in SUBSET SkillKeys(h) :
             /\ cmd' = [handler |-> h, op |-> op, params |-> params,
                        arg |-> arg, ext |-> ext]
             /\ IF dispatch = "returns"
                THEN /\ result' = SkillResult(h, op, params, arg, ext)
                     /\ response' = ApiSuccess(result')
                ELSE /\ result' = Raised(FaultText(dispatch))
                     /\ response' = ApiHttpException(FaultText(dispatch))
    /\ UNCHANGED <<ctxVars, now, drained, loopVars, prodVars, histVars,
                   routerVars, persistVars, taskVars, countVars,
                   tripVars, toolVars>>

\* GET /status
get_status ==
    /\ \E ext \in {"returns", "raises"} :
          /\ cmd' = [handler |-> "vader", op |-> "get_status", params |-> {},
                     arg |-> "none", ext |-> ext]
          /\ IF ext = "returns"
             THEN /\ result' = Success
                  /\ response' = ApiSuccess(Success)
             ELSE /\ result' = Raised(FaultText(ext))
                  /\ response' = ApiHttpException(FaultText(ext))
    /\ UNCHANGED <<ctxVars, now, drained, loopVars, prodVars, histVars,
                   routerVars, persistVars, taskVars, countVars,
                   tripVars, toolVars>>

NextApi ==
    \/ execute_skill
    \/ get_status

SpecApi == Init /\ [][NextApi]_vars

\* C14: for every request through the transport, a failure of the dispatched
\* command reaches the operator as a structured result with status 'error'
\* and a message: never a top-level 'success' around an Error result, never
\* a raw fault response.  Violated: the route wraps every returned result in
\* status 'success' and turns a raised fault into an HTTP 500 exception.
C14_FailureVisibleAsStructuredError ==
    (response.http # 0 /\ result.status \in {"error", "raised"}) =>
       /\ response.status = "error"
       /\ response.detail # ""
       /\ response.http # 500

(***************************************************************************)
(* Persistence of the context: save_state writes current_context to        *)
(* data/context.json, load_initial_state merges the file into it.          *)
(***************************************************************************)
\* dict.update: a key the file holds takes the file's value
Merged(current, file, key) ==
    IF key \in file.present THEN file[key] ELSE current

\* self.current_context.update(saved_context)
merge_saved_context(file) ==
    /\ system_state' = Merged(system_state, file, "system_state")
    /\ last_update' = Merged(last_update, file, "last_update")
    /\ active_tasks' = Merged(active_tasks, file, "active_tasks")
    /\ pending_inputs' = Merged(pending_inputs, file, "pending_inputs")
    /\ environment_data' = Merged(environment_data, file, "environment_data")
    /\ short_term_memory' =
          Merged(short_term_memory, file, "short_term_memory")
    /\ context_keys' = context_keys \cup file.present

\* a mutation of load_initial_state: the loaded mapping replaces the context
\* (self.current_context = saved_context)
load_initial_state_replaces(io_fails) ==
    /\ IF context_file.kind = "absent"
       THEN /\ load_outcome' = "no_file"
            /\ UNCHANGED <<ctxVars, context_keys>>
       ELSE IF io_fails \/ context_file.kind \in {"unreadable", "scalar"}
       THEN /\ load_outcome' = "failed"
            /\ UNCHANGED <<ctxVars, context_keys>>
       ELSE /\ load_outcome' = IF context_file.kind = "mapping"
                               THEN "loaded" ELSE "failed"
            /\ system_state' = context_file.system_state
            /\ last_update' = context_file.last_update
            /\ active_tasks' = context_file.active_tasks
            /\ pending_inputs' = context_file.pending_inputs
            /\ environment_data' = context_file.environment_data
            /\ short_term_memory' = context_file.short_term_memory
            /\ context_keys' = context_file.present
    /\ UNCHANGED <<context_file, save_outcome>>

\* load_initial_state().  io_fails: open() or the read raises.  Everything
\* is inside try/except Exception, which logs.  A file that is no JSON
\* makes json.load raise before the context is touched; a JSON value that
\* is no mapping makes dict.update raise, at once for a scalar and after the
\* leading pairs have been merged for an array of pairs.
load_initial_state(io_fails) ==
    /\ IF context_file.kind = "absent"
       THEN /\ load_outcome' = "no_file"
            /\ UNCHANGED <<ctxVars, context_keys>>
       ELSE IF io_fails \/ context_file.kind \in {"unreadable", "scalar"}
       THEN /\ load_outcome' = "failed"
            /\ UNCHANGED <<ctxVars, context_keys>>
       ELSE /\ load_outcome' = IF context_file.kind = "mapping"
                               THEN "loaded" ELSE "failed"
            /\ merge_saved_context(context_file)
    /\ UNCHANGED <<context_file, save_outcome>>

\* a mutation of save_state: a failed save also resets the context in memory
save_state_resets_on_failure(outcome) ==
    /\ save_outcome' = IF outcome = "saved" THEN "saved" ELSE "failed"
    /\ context_file' =
          CASE outcome = "saved" ->
                  FileContent("mapping", context_keys \cap Fields,
                              system_state, last_update, active_tasks,
                              pending_inputs, environment_data,
                              short_term_memory)
            [] outcome = "not_written" -> context_file
            [] OTHER -> NoContent("unreadable")
    /\ IF outcome = "saved"
       THEN UNCHANGED ctxVars
       ELSE /\ short_term_memory' = <<>>
            /\ UNCHANGED <<system_state, last_update, active_tasks,
                           pending_inputs, environment_data>>
    /\ UNCHANGED <<context_keys, load_outcome>>

\* Tasks are dicts with values of any type.  "t_tuple" is a task that holds
\* a tuple, "t_list" the same task with a list in its place, "t_time" a
\* task that holds a datetime.
RichTasks == {"t_tuple", "t_time"}

\* json.dump accepts the task: it raises TypeError for a value that is no
\* str, number, bool, None, list, tuple or dict
JsonEncodable(task) == task \notin {"t_time", "d_time"}

\* what json.load returns for the text json.dump wrote for the task: a
\* tuple is written as an array and read back as a list
JsonRoundTrip(task) ==
    CASE task = "t_tuple" -> "t_list"
      [] task = "d_tuple" -> "d_list"
      [] OTHER -> task

\* the same for a list of tasks, element by element, in order
JsonRoundTripAll(tasks) ==
    [i \in 1..Len(tasks) |-> JsonRoundTrip(tasks[i])]

\* save_state().  outcome: "saved"; "not_written" (mkdir or open raised:
\* the file is as it was); "truncated" (json.dump raised after open(.., 'w')
\* had emptied the file, by an I/O fault or on a value it cannot encode:
\* what it had written so far is no JSON document).  Everything is inside
\* try/except Exception.
save_state(outcome) ==
    LET ends == IF outcome = "saved"
                   /\ \E i \in 1..Len(active_tasks) :
                         ~JsonEncodable(active_tasks[i])
                THEN "truncated" ELSE outcome
    IN /\ save_outcome' = IF ends = "saved" THEN "saved" ELSE "failed"
       /\ context_file' =
             CASE ends = "saved" ->
                     FileContent("mapping", context_keys \cap Fields,
                                 system_state, last_update,
                                 JsonRoundTripAll(active_tasks),
                                 pending_inputs, environment_data,
                                 short_term_memory)
               [] ends = "not_written" -> context_file
               [] OTHER -> NoContent("unreadable")
       /\ UNCHANGED <<ctxVars, context_keys, load_outcome>>

\* the keys of the default context in the order of __init__; a version of
\* the program that knew only the first k of them wrote only those
FieldOrder ==
    <<"system_state", "last_update", "active_tasks", "pending_inputs",
      "environment_data", "short_term_memory">>
KnownFields(k) == {FieldOrder[i] : i \in 1..k}

\* the files something other than save_state leaves in place of
\* data/context.json: written by a version of the program that knew fewer
\* fields, damaged, or removed
ExternalContents ==
    {FileContent(kind, KnownFields(k), "running", <<0>>, <<"t2">>, <<"r2">>,
                 1, <<[timestamp |-> 0, data |-> 0]>>) :
        kind \in {"mapping", "pairs"}, k \in 0..Len(FieldOrder)}
    \cup {NoContent(kind) : kind \in {"absent", "unreadable", "scalar"}}

external_write(content) ==
    /\ context_file' = content
    /\ UNCHANGED <<ctxVars, context_keys, load_outcome, save_outcome>>

(***************************************************************************)
(* SpecPersist: one caller drives the context store and its persistence.   *)
(***************************************************************************)
nonPersistVars ==
    <<now, loopVars, prodVars, cmdVars, routerVars, apiVars, taskVars,
      countVars, tripVars, toolVars, runHist, enqueued, processed, lost>>

LoadInitialState ==
    /\ \E io_fails \in BOOLEAN : load_initial_state(io_fails)
    /\ UNCHANGED <<nonPersistVars, drained, appended, delivered,
                   drains_since_enqueue>>

SaveState ==
    /\ \E outcome \in {"saved", "not_written", "truncated"} :
          save_state(outcome)
    /\ UNCHANGED <<nonPersistVars, drained, appended, delivered,
                   drains_since_enqueue>>

ExternalWrite ==
    /\ \E content \in ExternalContents : external_write(content)
    /\ UNCHANGED <<nonPersistVars, drained, appended, delivered,
                   drains_since_enqueue>>

PersistAddToMemory ==
    /\ Len(appended) < MaxPersistAppends
    /\ CtxAddToMemory

NextPersist ==
    \/ LoadInitialState
    \/ SaveState
    \/ ExternalWrite
    \/ CtxAddTask
    \/ CtxUpdate
    \/ PersistAddToMemory

SpecPersist == Init /\ [][NextPersist]_vars

(***************************************************************************)
(* C15: load_initial_state on a persisted mapping that lacks some of the   *)
(* six context fields does not fault and leaves a context that holds all   *)
(* six: a field the file holds takes the persisted value, a field the file *)
(* lacks keeps the value it had (its default when the load runs at         *)
(* startup).                                                               *)
(***************************************************************************)
C15_RestoreMergesIntoDefaults ==
    [][(LoadInitialState /\ context_file.kind = "mapping") =>
          /\ load_outcome' \in {"loaded", "failed"}
          /\ Fields \subseteq context_keys'
          /\ load_outcome' = "failed" => UNCHANGED ctxVars
          /\ load_outcome' = "loaded" =>
                /\ system_state' =
                      IF "system_state" \in context_file.present
                      THEN context_file.system_state ELSE system_state
                /\ last_update' =
                      IF "last_update" \in context_file.present
                      THEN context_file.last_update ELSE last_update
                /\ active_tasks' =
                      IF "active_tasks" \in context_file.present
                      THEN context_file.active_tasks ELSE active_tasks
                /\ pending_inputs' =
                      IF "pending_inputs" \in context_file.present
                      THEN context_file.pending_inputs ELSE pending_inputs
                /\ environment_data' =
                      IF "environment_data" \in context_file.present
                      THEN context_file.environment_data
                      ELSE environment_data
                /\ short_term_memory' =
                      IF "short_term_memory" \in context_file.present
                      THEN context_file.short_term_memory
                      ELSE short_term_memory]_vars

\* a file that holds only system_state and last_update has been loaded into
\* the default context: the other four fields are still at their defaults
C15_Witness ==
    /\ load_outcome = "loaded"
    /\ context_file.kind = "mapping"
    /\ context_file.present = KnownFields(2)
    /\ Fields \subseteq context_keys
    /\ system_state = "running"
    /\ last_update = <<0>>
    /\ active_tasks = <<>>
    /\ pending_inputs = <<>>
    /\ environment_data = 0
    /\ short_term_memory = <<>>

(***************************************************************************)
(* C16: a failure while loading the persisted context raises nothing and   *)
(* leaves the context as it was (its defaults at startup); a failure while *)
(* saving raises nothing, leaves the context in memory unchanged and does  *)
(* not stop the loop.                                                      *)
(***************************************************************************)
C16_PersistenceFailureLeavesContext ==
    /\ [][(LoadInitialState /\ load_outcome' = "failed") =>
             UNCHANGED <<ctxVars, context_keys>>]_vars
    /\ [][(SaveState /\ save_outcome' = "failed") =>
             UNCHANGED <<ctxVars, context_keys, running>>]_vars

(***************************************************************************)
(* C17: when the environment sampling fails during update(), update()      *)
(* still returns to the cycle (the cycle goes on to drain the inputs),     *)
(* environment_data is unchanged and the memory has been pruned to the     *)
(* cap.                                                                    *)
(***************************************************************************)
C17_SamplingFailureContained ==
    [][\A t \in Loops :
          (pc[t] = "observe" /\ pc'[t] # "observe") =>
             /\ pc'[t] = "drain"
             /\ fault'[t] = fault[t]
             /\ environment_data' = environment_data
             /\ Len(short_term_memory') <= max_items]_vars

(***************************************************************************)
(* C18: a task added to active_tasks stays in it and active_tasks stays in *)
(* insertion order across update(), appends to the memory, saving and      *)
(* restoring the persisted state: every step leaves the old list as a      *)
(* prefix of the new one.                                                  *)
(***************************************************************************)
C18_TasksStayInOrder ==
    [][/\ Len(active_tasks') >= Len(active_tasks)
       /\ \A i \in 1..Len(active_tasks) :
             active_tasks'[i] = active_tasks[i]]_vars

(***************************************************************************)
(* Tasks: BaseCommands.start and BaseCommands.stop hand their parameters   *)
(* to vader.start_task and vader.stop_task and wrap what these return.     *)
(* The task lifecycle behind the two calls is the one the specification    *)
(* describes.                                                              *)
(***************************************************************************)
\* params.get(key, default) on a parameter record
Get(params, key, default) ==
    IF key \in DOMAIN params THEN params[key] ELSE default

\* the parameter dicts a caller may pass to stop
StopParams ==
    {[task_id |-> id, force |-> f] : id \in TaskIds, f \in BOOLEAN}
    \cup {[task_id |-> id] : id \in TaskIds}
    \cup {[force |-> f] : f \in BOOLEAN}
    \cup {<<>>}

\* start_task: issues an id not used before; the task is Running, and
\* 'clean' is what it will answer when asked to stop without force
start_task(id, clean) ==
    /\ id \in IssuedIds
    /\ task_state[id] = "absent"
    /\ task_state' = [task_state EXCEPT ![id] = "Running"]
    /\ can_stop' = [can_stop EXCEPT ![id] = clean]

\* whether stop_task(task_id, force) stops the task: the id is known, the
\* task is Running, and it can stop cleanly or force is set
stop_task_stops(task_id, force) ==
    /\ task_id \in TaskIds
    /\ task_state[task_id] = "Running"
    /\ force \/ can_stop[task_id]

\* stop_task(task_id, force) -> bool
stop_task(task_id, force) ==
    /\ task_state' = IF stop_task_stops(task_id, force)
                     THEN [task_state EXCEPT ![task_id] = "Stopped"]
                     ELSE task_state
    /\ UNCHANGED can_stop

\* the ids whose stop was refused so far, after a call that returned stopped
Refused(task_id, stopped) ==
    IF task_id \in TaskIds /\ task_state[task_id] = "Running" /\ ~stopped
    THEN refused \cup {task_id} ELSE refused

\* a mutation of BaseCommands.stop: 'force' is not handed on
BaseCommands_stop_task_drops_force(params) ==
    LET task_id == Get(params, "task_id", "None")
        force == Get(params, "force", FALSE)
        stopped == stop_task_stops(task_id, FALSE)
    IN /\ stop_task(task_id, FALSE)
       /\ task_call' = [name |-> "stop", task_id |-> task_id,
                        force |-> force]
       /\ task_reply' = [status |-> "success", stopped |-> stopped]
       /\ refused' = Refused(task_id, stopped)

\* BaseCommands.stop(params): task_id and force are read with params.get
\* and handed to stop_task; what it returns is wrapped as 'stopped'
BaseCommands_stop_task(params) ==
    LET task_id == Get(params, "task_id", "None")
        force == Get(params, "force", FALSE)
        stopped == stop_task_stops(task_id, force)
    IN /\ stop_task(task_id, force)
       /\ task_call' = [name |-> "stop", task_id |-> task_id,
                        force |-> force]
       /\ task_reply' = [status |-> "success", stopped |-> stopped]
       /\ refused' = Refused(task_id, stopped)

\* BaseCommands.start(params): the id start_task issued is wrapped as
\* 'task_id'
BaseCommands_start_task(id, clean) ==
    /\ start_task(id, clean)
    /\ task_call' = [name |-> "start", task_id |-> id, force |-> FALSE]
    /\ task_reply' = [status |-> "success", task_id |-> id]
    /\ UNCHANGED refused

nonTaskVars ==
    <<ctxVars, now, drained, loopVars, prodVars, cmdVars, histVars,
      routerVars, apiVars, persistVars, countVars, tripVars, toolVars>>

StartTask ==
    /\ \E id \in IssuedIds, clean \in BOOLEAN :
          BaseCommands_start_task(id, clean)
    /\ UNCHANGED nonTaskVars

StopTask ==
    /\ \E params \in StopParams : BaseCommands_stop_task(params)
    /\ UNCHANGED nonTaskVars

NextTasks ==
    \/ StartTask
    \/ StopTask

SpecTasks == Init /\ [][NextTasks]_vars

C21_CycleStepsInOrder ==
    [][\A t \in Loops :
          pc'[t] # pc[t] =>
             /\ pc'[t] = "cycle_begin" => pc[t] = "test"
             /\ pc'[t] = "observe" => pc[t] = "cycle_begin"
             /\ pc'[t] = "drain" => pc[t] = "observe"
             /\ pc'[t] = "drain_reset" => pc[t] = "drain"
             /\ pc'[t] = "ingest" => pc[t] = "drain_reset"
             /\ pc'[t] = "decide" => pc[t] = "ingest"
             /\ pc'[t] = "act" =>
                   pc[t] = "decide" /\ next_action'[t] # "None"
             /\ pc'[t] = "measure" => pc[t] \in {"decide", "act"}
             /\ pc'[t] = "pace" => pc[t] = "measure"
             /\ pc[t] \in {"drain", "drain_reset", "ingest"} =>
                   pc'[t] \in {"drain_reset", "ingest", "decide"}
             /\ (pc[t] = "decide" /\ next_action'[t] = "None") =>
                   pc'[t] = "measure"]_vars

(***************************************************************************)
(* SpecTwo: the host calls run() on two threads for the same VaderLoop.    *)
(* run() has no check that a loop is running already and nothing in        *)
(* VaderLoop is locked, so each thread runs its own cycles on the shared   *)
(* fields.                                                                 *)
(***************************************************************************)
\* cycles the two threads start between them
MaxCyclesTwo == 2

TwoCycleBegin(t) ==
    /\ cycle_count < MaxCyclesTwo
    /\ execute_cycle_begin(t)

LoopStepTwo(t) ==
    \/ run_call(t)
    \/ run_set_running(t)
    \/ run_loop_test(t)
    \/ TwoCycleBegin(t)
    \/ execute_cycle_observe(t)
    \/ get_pending_inputs_read(t)
    \/ get_pending_inputs_reset(t)
    \/ execute_cycle_ingest(t)
    \/ execute_cycle_decide(t)
    \/ execute_cycle_act(t)
    \/ execute_cycle_measure(t)
    \/ manage_cycle_timing(t)
    \/ sleep_returns(t)
    \/ run_except(t)

NextTwo ==
    \/ \E t \in Loops : LoopStepTwo(t)
    \/ \E t \in Loops : sleep_elapses(t)
    \/ stop

SpecTwo == Init /\ [][NextTwo]_vars

\* thread t is inside a cycle: between the start of _execute_cycle and the
\* end of _manage_cycle_timing
InCycle(t) ==
    pc[t] \in {"observe", "drain", "drain_reset", "ingest", "decide",
               "act", "measure", "pace", "sleeping"}

(***************************************************************************)
(* C22: at most one cycle is in progress at any time for one VaderLoop,    *)
(* also when run() is called while a loop is already running: no two       *)
(* threads are inside a cycle at once.                                     *)
(***************************************************************************)
C22_OneCycleAtATime ==
    \A t, u \in Loops : (InCycle(t) /\ InCycle(u)) => t = u

fresh_load_initial_state ==
    LET file == context_file
        loads == file.kind = "mapping"
    IN /\ load_outcome' = CASE file.kind = "absent" -> "no_file"
                             [] file.kind = "mapping" -> "loaded"
                             [] OTHER -> "failed"
       /\ system_state' =
             IF loads THEN Merged("initializing", file, "system_state")
             ELSE "initializing"
       /\ last_update' =
             IF loads THEN Merged(<<>>, file, "last_update") ELSE <<>>
       /\ active_tasks' =
             IF loads THEN Merged(<<>>, file, "active_tasks") ELSE <<>>
       /\ pending_inputs' =
             IF loads THEN Merged(<<>>, file, "pending_inputs") ELSE <<>>
       /\ environment_data' =
             IF loads THEN Merged(0, file, "environment_data") ELSE 0
       /\ short_term_memory' =
             IF loads THEN Merged(<<>>, file, "short_term_memory") ELSE <<>>
       /\ context_keys' = IF loads THEN Fields \cup file.present ELSE Fields
       /\ UNCHANGED <<context_file, save_outcome>>

nonTripVars ==
    <<now, loopVars, prodVars, cmdVars, routerVars, apiVars, taskVars,
      countVars, toolVars, runHist, enqueued, processed, lost>>

TripAddTask ==
    /\ \E task \in Tasks \cup RichTasks : add_task(task)
    /\ UNCHANGED <<now, drained, loopVars, prodVars, histVars, cmdVars,
                   extVars>>

TripSaveState ==
    /\ save_state("saved")
    /\ saved_context' = ctxVars
    /\ trip' = "saved"
    /\ UNCHANGED <<nonTripVars, drained, appended, delivered,
                   drains_since_enqueue>>

TripFreshLoad ==
    /\ trip = "saved"
    /\ fresh_load_initial_state
    /\ trip' = "loaded"
    /\ UNCHANGED <<nonTripVars, drained, appended, delivered,
                   drains_since_enqueue, saved_context>>

NextRoundTrip ==
    \/ TripAddTask
    \/ TripSaveState
    \/ TripFreshLoad
    \/ CtxUpdate
    \/ PersistAddToMemory
    \/ CtxEnqueue

SpecRoundTrip == Init /\ [][NextRoundTrip]_vars

(***************************************************************************)
(* C24: save_state followed by load_initial_state on a new ContextManager  *)
(* reproduces the saved context: all six fields are equal, the lists in    *)
(* the same order.                                                         *)
(***************************************************************************)
C24_SaveLoadRoundTrip ==
    [][TripFreshLoad => ctxVars' = saved_context]_vars

(***************************************************************************)
(* ConfigLoader: load_config serves a name from the cache when it has it   *)
(* and reads the file otherwise; save_config writes <name>.json and then   *)
(* caches the data.                                                        *)
(***************************************************************************)
ConfigSuccess(value) == [status |-> "success", value |-> value]
ConfigError(text) == [status |-> "error", value |-> text]

\* load_config(name).  read_fails: open or the parser raises
load_config(name, read_fails) ==
    /\ config_call' = [op |-> "load", name |-> name]
    /\ IF cached_configs[name] # "absent"
       THEN /\ config_reply' = ConfigSuccess(cached_configs[name])
            /\ UNCHANGED <<cached_configs, config_value>>
       ELSE IF config_files[name] = "absent"
       THEN /\ config_reply' = ConfigError("not found")
            /\ UNCHANGED <<cached_configs, config_value>>
       ELSE IF read_fails \/ config_files[name] = "unreadable"
       THEN /\ config_reply' = ConfigError("read failed")
            /\ UNCHANGED <<cached_configs, config_value>>
       ELSE /\ cached_configs' =
                  [cached_configs EXCEPT ![name] = config_files[name]]
            /\ config_value' =
                  [config_value EXCEPT ![name] = config_files[name]]
            /\ config_reply' = ConfigSuccess(config_files[name])
    /\ UNCHANGED config_files

\* a mutation of save_config: the data is cached before the file is written
save_config_caches_first(name, data, outcome) ==
    LET ends == IF outcome = "saved" /\ ~JsonEncodable(data)
                THEN "truncated" ELSE outcome
    IN /\ config_call' = [op |-> "save", name |-> name]
       /\ cached_configs' = [cached_configs EXCEPT ![name] = data]
       /\ config_files' =
             CASE ends = "saved" ->
                     [config_files EXCEPT ![name] = JsonRoundTrip(data)]
               [] ends = "not_written" -> config_files
               [] OTHER -> [config_files EXCEPT ![name] = "unreadable"]
       /\ IF ends = "saved"
          THEN /\ config_value' = [config_value EXCEPT ![name] = data]
               /\ config_reply' = ConfigSuccess("path")
          ELSE /\ config_reply' = ConfigError("save failed")
               /\ UNCHANGED config_value

\* save_config(name, data).  outcome: "saved"; "not_written" (mkdir or open
\* raised); "truncated" (json.dump raised after open(.., 'w'), by an I/O
\* fault or on data it cannot encode)
save_config(name, data, outcome) ==
    LET ends == IF outcome = "saved" /\ ~JsonEncodable(data)
                THEN "truncated" ELSE outcome
    IN /\ config_call' = [op |-> "save", name |-> name]
       /\ config_files' =
             CASE ends = "saved" ->
                     [config_files EXCEPT ![name] = JsonRoundTrip(data)]
               [] ends = "not_written" -> config_files
               [] OTHER -> [config_files EXCEPT ![name] = "unreadable"]
       /\ IF ends = "saved"
          THEN /\ cached_configs' = [cached_configs EXCEPT ![name] = data]
               /\ config_value' = [config_value EXCEPT ![name] = data]
               /\ config_reply' = ConfigSuccess("path")
          ELSE /\ config_reply' = ConfigError("save failed")
               /\ UNCHANGED <<cached_configs, config_value>>

\* a file under config/ is edited, damaged or removed outside the program
config_file_changes(name, content) ==
    /\ config_files' = [config_files EXCEPT ![name] = content]
    /\ UNCHANGED <<cached_configs, config_call, config_reply, config_value>>

nonConfigVars ==
    <<ctxVars, now, drained, loopVars, prodVars, cmdVars, histVars,
      routerVars, apiVars, persistVars, taskVars, countVars, tripVars,
      reportVars>>

LoadConfig ==
    /\ \E name \in ConfigNames, read_fails \in BOOLEAN :
          load_config(name, read_fails)
    /\ UNCHANGED nonConfigVars

SaveConfig ==
    /\ \E name \in ConfigNames, data \in ConfigData,
          outcome \in {"saved", "not_written", "truncated"} :
          save_config(name, data, outcome)
    /\ UNCHANGED nonConfigVars

ConfigFileChanges ==
    /\ \E name \in ConfigNames, content \in {"absent", "unreadable", "d2"} :
          config_file_changes(name, content)
    /\ UNCHANGED nonConfigVars

NextConfig ==
    \/ LoadConfig
    \/ SaveConfig
    \/ ConfigFileChanges

SpecConfig == Init /\ [][NextConfig]_vars

(***************************************************************************)
(* C25: after a successful save_config(name, data) every later             *)
(* load_config(name) returns data; a save_config that fails leaves the     *)
(* cache as it was; a cached name is served without the file, so           *)
(* load_config returns the data of the last successful save, or else of    *)
(* the first load, of that name.                                           *)
(***************************************************************************)
C25_LoadReturnsLastSavedOrFirstLoaded ==
    /\ [][LoadConfig =>
             LET name == config_call'.name
             IN config_value[name] # "absent" =>
                   config_reply' = ConfigSuccess(config_value[name])]_vars
    /\ [][(SaveConfig /\ config_reply'.status = "error") =>
             cached_configs' = cached_configs]_vars
    /\ [][(SaveConfig /\ config_reply'.status = "success") =>
             \E data \in ConfigData :
                 /\ config_value' =
                       [config_value EXCEPT ![config_call'.name] = data]
                 /\ cached_configs'[config_call'.name] = data]_vars

\* "app" was saved with data holding a tuple, a later save of data that
\* cannot be encoded failed and left the file cut off, and load_config has
\* returned the data of the successful save
C25_Witness ==
    /\ config_call = [op |-> "load", name |-> "app"]
    /\ config_reply = ConfigSuccess("d_tuple")
    /\ config_value["app"] = "d_tuple"
    /\ config_files["app"] = "unreadable"

(***************************************************************************)
(* ReportGenerator: generate_report formats the data and writes it to      *)
(* data/reports/report_<timestamp>.<format>.                               *)
(***************************************************************************)
\* datetime.now().strftime('%Y%m%d_%H%M%S'): the clock cut to whole seconds
strftime(clock) == clock \div 2

\* _save_report: the path, made of the timestamp and the format
ReportPath(clock, format) == <<strftime(clock), format>>

\* generate_report(data, format, template).  fails: the template, the
\* formatting or the directory raises before the file is opened
generate_report(data, format, fails) ==
    IF format \notin supported_formats
    THEN /\ report_reply' = [status |-> "error", report_path |-> <<>>]
         /\ UNCHANGED <<report_files, report_log>>
    ELSE IF fails
    THEN /\ report_reply' = [status |-> "error", report_path |-> <<>>]
         /\ UNCHANGED <<report_files, report_log>>
    ELSE LET path == ReportPath(report_clock, format)
         IN /\ Len(report_log) < MaxReports
            /\ report_files' =
                  {f \in report_files : f[1] # path} \cup {<<path, data>>}
            /\ report_reply' = [status |-> "success", report_path |-> path]
            /\ report_log' =
                  Append(report_log, [path |-> path, content |-> data])

nonReportVars ==
    <<ctxVars, now, drained, loopVars, prodVars, cmdVars, histVars,
      routerVars, apiVars, persistVars, taskVars, countVars, tripVars,
      configVars>>

GenerateReport ==
    /\ \E data \in ReportData, format \in ReportFormats, fails \in BOOLEAN :
          generate_report(data, format, fails)
    /\ UNCHANGED <<report_clock, nonReportVars>>

\* half a second passes
ReportClockTick ==
    /\ report_clock < MaxReportTicks
    /\ report_clock' = report_clock + 1
    /\ UNCHANGED <<report_files, report_reply, report_log, nonReportVars>>

NextReport ==
    \/ GenerateReport
    \/ ReportClockTick

SpecReport == Init /\ [][NextReport]_vars

(***************************************************************************)
(* C26: each successful generate_report call writes to a path no earlier   *)
(* successful call used, so every report written is still in data/reports  *)
(* with its content, also when two calls fall into the same second.        *)
(***************************************************************************)
C26_ReportsNeverOverwritten ==
    /\ \A i, j \in 1..Len(report_log) :
          i < j => report_log[i].path # report_log[j].path
    /\ \A i \in 1..Len(report_log) :
          <<report_log[i].path, report_log[i].content>> \in report_files

====
